---- MODULE Spec2Model ----
(***************************************************************************)
(* The streaming completion engine of shell_gpt: Handler.handle, the       *)
(* cache-wrapped generator Handler.get_completion with its recursive       *)
(* tool-call resolution, Handler.handle_function_call, the provider        *)
(* gateway get_provider_completion, and the fingerprint cache that wraps   *)
(* get_completion (sgpt/cache.py, modelled from the specification, section *)
(* 4.1); and around it main with its checks of the options and its shell   *)
(* loop (sgpt/app.py), replicate_to_host (sgpt/utils.py) and Config.get    *)
(* (sgpt/config.py, modelled from its tests).                              *)
(***************************************************************************)
EXTENDS Integers, Sequences, FiniteSets, TLC

(***************************************************************************)
(* Bounds of the model.                                                    *)
(***************************************************************************)
\* calls of handle in one run, with the full request domain
MaxRequests == 1
\* calls of handle in one run, with the cache's request pool
MaxCacheRequests == 4
\* calls of handle in one run, with the gateway's request pool
MaxToolRequests == 2
\* calls of handle by two processes that run side by side
MaxConcurrentRequests == 3
\* characters of a replication target
MaxTargetLen == 3
\* chunks the provider sends in one run
MaxChunks == 3
\* tool rounds of one request
MaxToolRounds == 1
\* answers the user gives at the prompt of the shell loop
MaxAnswers == 3
\* tool rounds a scripted provider asks for before it stops
MaxScriptRounds == 2
\* chunks a scripted provider sends before the one that ends a stream
MaxStreamChunks == 1

(***************************************************************************)
(* Configuration and input domains.                                        *)
(***************************************************************************)
\* int(cfg.get("CACHE_LENGTH")), the maximum number of cache entries (N > 0)
CACHE_LENGTH == 2

\* Python's None where a text is expected
NoneStr == "<None>"

Prompts == {"p1"}
Models == {"m1"}
Temperatures == {0}
TopPs == {1}

\* DefaultRoles.SHELL.value, DefaultRoles.CODE.value, DefaultRoles.DESCRIBE_SHELL.value
SHELL == "Shell Command Generator"
CODE == "Code Generator"
DESCRIBE_SHELL == "Shell Command Descriptor"
DEFAULT == "ShellGPT"
RoleNames == {DEFAULT, SHELL, CODE, DESCRIBE_SHELL}

\* the functions argument of handle: None, or a non-empty list of schemas
NoFunctions == [given |-> FALSE, schemas |-> <<>>]
SomeFunctions == [given |-> TRUE, schemas |-> <<"schema_f">>]
FunctionArgs == {NoFunctions, SomeFunctions}

\* an empty list of schemas
EmptyFunctions == [given |-> TRUE, schemas |-> <<>>]

\* Python truthiness of the functions argument (None and [] are falsy)
Truthy(functions) == functions.given /\ functions.schemas # <<>>

Requests ==
    [prompt : Prompts, model : Models, temperature : Temperatures,
     top_p : TopPs, caching : BOOLEAN, functions : FunctionArgs,
     role : RoleNames]

\* the requests of the runs that exercise the cache: three fingerprints
CacheRequests ==
    { rq \in [prompt : {"p1", "p2"}, model : Models, temperature : Temperatures,
              top_p : TopPs, caching : BOOLEAN, functions : FunctionArgs,
              role : {DEFAULT}] :
        rq.prompt = "p2" => rq.functions = NoFunctions }

\* the requests of the runs that exercise the provider gateway: with and
\* without schemas, under a role that may use tools and under one that may not
ToolRequests ==
    [prompt : {"p1"}, model : Models, temperature : Temperatures,
     top_p : TopPs, caching : BOOLEAN,
     functions : {NoFunctions, EmptyFunctions, SomeFunctions},
     role : {DEFAULT, SHELL}]

NoRequest ==
    [prompt |-> "", model |-> "", temperature |-> 0, top_p |-> 0,
     caching |-> FALSE, functions |-> NoFunctions, role |-> ""]

(***************************************************************************)
(* Text.                                                                   *)
(***************************************************************************)
RECURSIVE Concat(_)
\* "".join(fragments): what the printer returns as the full completion
Concat(frags) ==
    IF frags = <<>> THEN "" ELSE Head(frags) \o Concat(Tail(frags))

(***************************************************************************)
(* Messages.                                                               *)
(***************************************************************************)
Message(role, content, tool_calls, tool_call_id) ==
    [role |-> role, content |-> content, tool_calls |-> tool_calls,
     tool_call_id |-> tool_call_id]

\* BUILDING: the role's fixed preamble followed by the user prompt
make_messages(role, prompt) ==
    << Message("system", "You are " \o role, <<>>, ""),
       Message("user", prompt, <<>>, "") >>

(***************************************************************************)
(* The fingerprint cache (specification 3 and 4.1).                        *)
(***************************************************************************)
\* the digest of (model, temperature, top_p, messages, schemas supplied)
Fingerprint(model, temperature, top_p, messages, functions) ==
    << model, temperature, top_p, messages, Truthy(functions) >>

EmptyCache == [fp \in {} |-> [frags |-> <<>>, atime |-> 0]]

\* the least recently accessed entry
Oldest(c) ==
    CHOOSE fp \in DOMAIN c : \A g \in DOMAIN c : c[fp].atime <= c[g].atime

Remove(c, fp) == [g \in DOMAIN c \ {fp} |-> c[g]]

\* a read that leaves the last-access time as it was
CacheTouchStale(c, fp, t) == c

\* a read refreshes the entry's last-access time
CacheTouch(c, fp, t) == [c EXCEPT ![fp].atime = t]

\* an insertion that never evicts
CacheEvictNever(c, fp) == c

\* evict the oldest entry first when inserting would exceed the maximum
CacheEvict(c, fp) ==
    IF fp \notin DOMAIN c /\ Cardinality(DOMAIN c) >= CACHE_LENGTH
    THEN Remove(c, Oldest(c))
    ELSE c

\* a write that leaves an entry that is already there as it is
CacheWriteKeepFirst(c, fp, frags, t) ==
    IF fp \in DOMAIN c THEN c
    ELSE LET kept == CacheEvict(c, fp)
         IN  [g \in DOMAIN kept \cup {fp} |->
                 IF g = fp THEN [frags |-> frags, atime |-> t] ELSE kept[g]]

\* persist the accumulated fragments as the entry of fp
CacheWrite(c, fp, frags, t) ==
    LET kept == CacheEvict(c, fp)
    IN  [g \in DOMAIN kept \cup {fp} |->
            IF g = fp THEN [frags |-> frags, atime |-> t] ELSE kept[g]]

(***************************************************************************)
(* The provider's stream: what one chunk may be.                           *)
(***************************************************************************)
Contents == {"a"}

\* the argument text arrives in two fragments; id and name only on the first
ArgHead == "{\"q\": "
ArgTail == "1}"
DeltaHead == [id |-> "call_1", name |-> "f", arguments |-> ArgHead]
DeltaTail == [id |-> "", name |-> "", arguments |-> ArgTail]

\* a delta of a second tool call, whole in one fragment
DeltaOther == [id |-> "call_2", name |-> "g", arguments |-> "{}"]

Chunk(choices, content, tool_calls, finish_reason) ==
    [choices |-> choices, content |-> content, tool_calls |-> tool_calls,
     finish_reason |-> finish_reason]

\* chunks of a call made without tools: one without choices, the stop chunk
\* (its delta has no content), and content chunks
PlainChunks ==
    { Chunk(FALSE, "", <<>>, "none"), Chunk(TRUE, "", <<>>, "stop") }
    \cup { Chunk(TRUE, c, <<>>, "none") : c \in Contents }

\* chunks of a tool call: argument deltas, and the chunk that ends the
\* segment, which may itself carry the whole call
ToolChunks ==
    { Chunk(TRUE, "", tc, "none") :
        tc \in { <<DeltaHead>>, <<DeltaTail>>, <<DeltaHead, DeltaTail>> } }
    \cup { Chunk(TRUE, "", tc, "tool_calls") :
             tc \in { <<>>, <<DeltaHead, DeltaTail>> } }

AllChunks == PlainChunks \cup ToolChunks

\* the chunks of the runs that exercise the cache, whose provider asks for a
\* tool only when the call carried tool schemas
CacheChunks ==
    { Chunk(TRUE, "a", <<>>, "none"),
      Chunk(TRUE, "", <<DeltaHead, DeltaTail>>, "tool_calls"),
      Chunk(TRUE, "", <<>>, "tool_calls") }

\* the chunks of the runs that exercise the gateway: those above, a first
\* tool call that does not end the segment, and a second one after it
ToolRunChunks ==
    CacheChunks
    \cup { Chunk(TRUE, "", << DeltaHead, DeltaTail >>, "none"),
           Chunk(TRUE, "", << DeltaOther >>, "none") }

(***************************************************************************)
(* The function registry and the argument parser, on the texts above.      *)
(***************************************************************************)
FunctionNames == {"f", "g"}

\* a parser that takes any text for an empty argument map
JsonLoadsLenient(arguments) == [ok |-> TRUE, items |-> <<>>]

\* json.loads(arguments): the argument map as a list of items, or a failure
JsonLoads(arguments) ==
    IF arguments = ArgHead \o ArgTail
    THEN [ok |-> TRUE, items |-> << [k |-> "q", v |-> "1"] >>]
    ELSE IF arguments = "{}"
    THEN [ok |-> TRUE, items |-> <<>>]
    ELSE [ok |-> FALSE, items |-> <<>>]

RECURSIVE JoinedArgs(_)
\* ", ".join(f'{k}="{v}"' for k, v in dict_args.items())
JoinedArgs(items) ==
    IF items = <<>> THEN ""
    ELSE Head(items).k \o "=\"" \o Head(items).v \o "\""
         \o (IF Len(items) > 1 THEN ", " ELSE "") \o JoinedArgs(Tail(items))

\* get_function(name)(**dict_args)
FunctionResult(name, items) == "result of " \o name

(***************************************************************************)
(* State.                                                                  *)
(***************************************************************************)
VARIABLES
    cache,        \* Handler.cache: fingerprint -> [frags, atime]
    clock,        \* requests handled so far; the time of a cache access
    show_output,  \* cfg.get("SHOW_FUNCTIONS_OUTPUT") == "true"
    req,          \* the arguments of the current (or last) call of handle
    status,       \* "idle", "streaming", "done", "cancelled" or "error"
    messages,     \* the message list of the request, mutated in place
    out,          \* the fragments the request has yielded to the printer
    stack,        \* the get_completion invocations in progress, outermost first
    responses,    \* the provider streams of the request: "open", "exhausted", "closed"
    calls,        \* the provider calls of the request, in order
    toolExecs,    \* functions executed by the request
    nchunks,      \* chunks read in this run
    contents,     \* per provider call of the request, the content it has sent
    accessed,     \* the fingerprints read or written in the cache, latest last
    error,        \* the exception that left handle, "" when none did
    use_litellm,  \* cfg.get("USE_LITELLM") == "true", read when the module loads
    completion,   \* the module's memoized provider callable, or None
    completion_kwargs,  \* the module's memoized provider keyword arguments
    resolved,     \* how often the provider was resolved from the configuration
    peer,         \* a second process running handle on the same cache
    replication,  \* the call of replicate_to_host: where it is, what it ran
    config,       \* a call of Config.get: the key, the values and the result
    script,       \* the provider's script: how often it asks for a tool
    streams,      \* per provider stream of the request, what was read of it
    app           \* the call of main: its options, where it is, what it did

vars ==
    << cache, clock, show_output, req, status, messages, out, stack,
       responses, calls, toolExecs, nchunks, contents, accessed, error,
       use_litellm, completion, completion_kwargs, resolved, peer,
       replication, config, script, streams, app >>

\* the state of the completion engine
engine ==
    << cache, clock, show_output, req, status, messages, out, stack,
       responses, calls, toolExecs, nchunks, contents, accessed, error,
       use_litellm, completion, completion_kwargs, resolved, peer, script,
       streams >>

\* the state of the commands around it
glue == << replication, config, app >>

\* the module globals of get_provider_completion
provider == << use_litellm, completion, completion_kwargs, resolved >>

(***************************************************************************)
(* Handler.get_completion, before its chunk loop.                          *)
(***************************************************************************)
\* the override with the describe-shell role forgotten
IsReservedRoleShellCode(name) == name \in {SHELL, CODE}

\* lines 120-122: the roles that never receive tool schemas
IsReservedRole(name) == name \in {SHELL, CODE, DESCRIBE_SHELL}

\* lines 123-124: functions = None for a reserved role
EffectiveFunctions(role, functions) ==
    IF IsReservedRole(role) THEN NoFunctions ELSE functions

\* line 10: completion before the first resolution, and the two callables
NoCompletion == "None"
OpenAICreate == "client.chat.completions.create"
LiteLLMCompletion == "litellm.completion"

\* lines 22-27: int(cfg.get("REQUEST_TIMEOUT")) and the base URL ("default"
\* becomes None)
REQUEST_TIMEOUT == 60
BaseUrl == NoneStr

\* line 42: the keyword arguments of the OpenAI client path
ProviderKwargs == [k \in {} |-> ""]

\* lines 23-35: the keyword arguments of the LiteLLM path, api_key popped
LiteLLMKwargs == [timeout |-> REQUEST_TIMEOUT, base_url |-> BaseUrl]

\* a memo check that never finds the provider resolved
IsResolvedNever(comp) == FALSE

\* line 19: completion is not None
IsResolved(comp) == comp # NoCompletion

\* lines 16-43: the globals it leaves, the pair it returns (the dictionary a
\* copy) and whether it read the configuration
get_provider_completion(comp, kwargs, litellm) ==
    IF IsResolved(comp)
    THEN [completion |-> comp, completion_kwargs |-> kwargs,
          func |-> comp, provider_kwargs |-> kwargs, resolutions |-> 0]
    ELSE IF litellm
    THEN [completion |-> LiteLLMCompletion, completion_kwargs |-> LiteLLMKwargs,
          func |-> LiteLLMCompletion, provider_kwargs |-> LiteLLMKwargs,
          resolutions |-> 1]
    ELSE [completion |-> OpenAICreate, completion_kwargs |-> ProviderKwargs,
          func |-> OpenAICreate, provider_kwargs |-> ProviderKwargs,
          resolutions |-> 1]

\* `if functions:` read as `if functions is not None:`
TruthyGiven(functions) == functions.given

\* line 128: if functions
HasFunctions(functions) == Truthy(functions)

\* lines 127-131
RequestKwargs(provider_kwargs, functions) ==
    IF HasFunctions(functions)
    THEN [tool_choice |-> "auto", tools |-> functions.schemas,
          parallel_tool_calls |-> FALSE] @@ provider_kwargs
    ELSE provider_kwargs

\* the stored dictionary were it the one the request adds its keys to
KwargsShared(stored, request_kwargs) == request_kwargs

\* lines 20, 36, 43 and 127: get_provider_completion returns a copy and the
\* request works on a copy of that, so the stored dictionary keeps its items
KwargsAfterRequest(stored, request_kwargs) == stored

\* lines 133-140: the call the provider receives
ProviderCall(rq, msgs, functions, gpc) ==
    [func |-> gpc.func,
     model |-> rq.model, temperature |-> rq.temperature, top_p |-> rq.top_p,
     messages |-> msgs, stream |-> TRUE,
     kwargs |-> RequestKwargs(gpc.provider_kwargs, functions)]

\* lines 126-131: the globals after an invocation prepared its request
Resolve(gpc, functions) ==
    /\ completion' = gpc.completion
    /\ completion_kwargs' =
          KwargsAfterRequest(gpc.completion_kwargs,
                             RequestKwargs(gpc.provider_kwargs, functions))
    /\ resolved' = resolved + gpc.resolutions
    /\ UNCHANGED use_litellm

\* what the provider call or its stream may raise: a connection failure
APIConnectionError == "APIConnectionError"
TransportErrors == {APIConnectionError}

\* lines 133-140: the call returns a stream or raises
CallOutcomes == {"stream"} \cup TransportErrors

\* what was read of a provider stream: the chunks taken from it and the
\* finish_reason of the last one that had choices (line 165)
NewStream == [chunks |-> 0, finish |-> "none"]

\* one invocation of get_completion: its cache wrapper's state and its locals
\* (line 119), and with them the argument fragments received for the tool
\* call whose id is the current one (own)
Frame(caching, fp, start, functions, resp) ==
    [caching |-> caching, fp |-> fp, start |-> start, functions |-> functions,
     resp |-> resp, tool_call_id |-> "", name |-> "", arguments |-> "",
     own |-> ""]

\* the cache wrapper on entry: a hit replays, anything else runs the producer
Lookup(c, rq, msgs, functions, caching, t) ==
    LET fp == Fingerprint(rq.model, rq.temperature, rq.top_p, msgs, functions)
    IN  IF caching /\ fp \in DOMAIN c
        THEN [hit |-> TRUE, fp |-> fp, frags |-> c[fp].frags,
              cache |-> CacheTouch(c, fp, t)]
        ELSE [hit |-> FALSE, fp |-> fp, frags |-> <<>>, cache |-> c]

RECURSIVE Unwind(_, _, _, _)
\* the generators end normally, innermost first: each wrapper whose caching is
\* enabled persists the fragments its producer yielded
Unwind(c, frames, o, t) ==
    IF frames = <<>> THEN c
    ELSE LET f == frames[Len(frames)]
             c1 == IF f.caching
                   THEN CacheWrite(c, f.fp, SubSeq(o, f.start + 1, Len(o)), t)
                   ELSE c
         IN  Unwind(c1, SubSeq(frames, 1, Len(frames) - 1), o, t)

\* the record of cache accesses: fp becomes the most recent one
Touched(acc, fp) == SelectSeq(acc, LAMBDA g : g # fp) \o << fp >>

RECURSIVE TouchedByUnwind(_, _)
\* the entries Unwind writes, innermost first
TouchedByUnwind(acc, frames) ==
    IF frames = <<>> THEN acc
    ELSE LET f == frames[Len(frames)]
         IN  TouchedByUnwind(IF f.caching THEN Touched(acc, f.fp) ELSE acc,
                             SubSeq(frames, 1, Len(frames) - 1))

(***************************************************************************)
(* Handler.handle                                                          *)
(***************************************************************************)
\* handle with caching never passed on as enabled
HandleCachingOff(caching) == FALSE

\* handle with caching always passed on as enabled
HandleCachingOn(caching) == TRUE

\* line 201: handle passes its caching argument on
HandleCaching(caching) == caching

Handle(rq, limit) ==
    /\ status # "streaming"
    /\ clock < limit
    /\ LET msgs == make_messages(rq.role, rq.prompt)
           t == clock + 1
           look == Lookup(cache, rq, msgs, rq.functions,
                          HandleCaching(rq.caching), t)
           functions == EffectiveFunctions(rq.role, rq.functions)
           gpc == get_provider_completion(completion, completion_kwargs,
                                          use_litellm)
       IN  /\ clock' = t
           /\ req' = rq
           /\ messages' = msgs
           /\ toolExecs' = 0
           /\ cache' = look.cache
           /\ IF look.hit
              THEN /\ out' = look.frags
                   /\ status' = "done"
                   /\ stack' = <<>>
                   /\ responses' = <<>>
                   /\ calls' = <<>>
                   /\ contents' = <<>>
                   /\ streams' = <<>>
                   /\ error' = ""
                   /\ accessed' = Touched(accessed, look.fp)
                   /\ UNCHANGED provider
              ELSE /\ out' = <<>>
                   /\ Resolve(gpc, functions)
                   /\ calls' = << ProviderCall(rq, msgs, functions, gpc) >>
                   /\ contents' = << "" >>
                   /\ streams' = << NewStream >>
                   /\ accessed' = accessed
                   /\ \E oc \in CallOutcomes :
                         IF oc = "stream"
                         THEN /\ status' = "streaming"
                              /\ error' = ""
                              /\ stack' = << Frame(HandleCaching(rq.caching),
                                                   look.fp, 0, functions, 1) >>
                              /\ responses' = << "open" >>
                         ELSE \* the exception leaves handle: nothing is persisted
                              /\ status' = "error"
                              /\ error' = oc
                              /\ stack' = <<>>
                              /\ responses' = << "failed" >>
    /\ UNCHANGED << show_output, nchunks, peer, glue, script >>

(***************************************************************************)
(* Handler.handle_function_call                                            *)
(***************************************************************************)
\* lines 78-90: the assistant message recording the tool call
AssistantMessage(tool_call_id, name, arguments) ==
    Message("assistant", NoneStr,
            << [id |-> tool_call_id, type |-> "function",
                function |-> [name |-> name, arguments |-> arguments]] >>,
            "")

\* a tool response message that does not say which call it answers
ToolMessageNoId(tool_call_id, result) == Message("tool", result, <<>>, "")

\* lines 106-108: the tool response message
ToolMessage(tool_call_id, result) == Message("tool", result, <<>>, tool_call_id)

\* the trace line without the arguments
TraceLineNoArgs(name, items) == "> @FunctionCall '" \o name \o "()' \n\n"

\* line 97 (a backquote of the source is written ' here)
TraceLine(name, items) ==
    "> @FunctionCall '" \o name \o "(" \o JoinedArgs(items) \o ")' \n\n"

\* line 103 (a backquote of the source is written ' here)
ResultBlock(result) == "'''text\n" \o result \o "\n'''\n"

\* what json.loads raises on a text that is not JSON (line 95)
JSONDecodeError == "JSONDecodeError"

\* what get_function raises for a name that is not registered (line 101)
FunctionNotFound == "FunctionNotFound"

\* the whole generator: the messages it leaves, the fragments it yields, whether
\* it ran to its end (ok), the exception that ended it otherwise, and whether
\* the function was executed
handle_function_call(msgs, tool_call_id, name, arguments, show) ==
    LET msgs1 == Append(msgs, AssistantMessage(tool_call_id, name, arguments))
        lead == IF msgs1[Len(msgs1)].role = "assistant" THEN << "\n" >> ELSE <<>>
        parsed == JsonLoads(arguments)
        result == FunctionResult(name, parsed.items)
    IN  IF ~parsed.ok
        THEN [ok |-> FALSE, executed |-> FALSE, messages |-> msgs1,
              frags |-> lead, raised |-> JSONDecodeError]
        ELSE IF name \notin FunctionNames
        THEN [ok |-> FALSE, executed |-> FALSE, messages |-> msgs1,
              frags |-> lead \o << TraceLine(name, parsed.items) >>,
              raised |-> FunctionNotFound]
        ELSE [ok |-> TRUE, executed |-> TRUE, raised |-> "",
              messages |-> Append(msgs1, ToolMessage(tool_call_id, result)),
              frags |-> lead \o << TraceLine(name, parsed.items) >>
                        \o (IF show THEN << ResultBlock(result) >> ELSE <<>>)]

(***************************************************************************)
(* Handler.get_completion: the chunk loop                                  *)
(***************************************************************************)
\* the outermost invocation taken for the one that is running
Outermost == stack[1]

\* the invocation that is running: the innermost (lines 166-176 delegate with
\* yield from, and line 177 returns once the delegate has ended)
Top == stack[Len(stack)]

RECURSIVE Accumulate(_, _)
\* lines 152-164: id and name keep the last non-empty value, arguments grow
Accumulate(f, tool_calls) ==
    IF tool_calls = <<>> THEN f
    ELSE LET d == Head(tool_calls)
         IN  Accumulate(
                [f EXCEPT !.tool_call_id = IF d.id # "" THEN d.id ELSE @,
                          !.name = IF d.name # "" THEN d.name ELSE @,
                          !.arguments = @ \o d.arguments,
                          !.own = IF d.id \notin {"", f.tool_call_id}
                                     /\ f.tool_call_id # ""
                                  THEN d.arguments
                                  ELSE @ \o d.arguments],
                Tail(tool_calls))

\* the recursive call with caching left on
RecursiveCachingOn == TRUE

\* line 175: the recursive call runs with caching off
RecursiveCaching == FALSE

\* the recursive call passed no functions
RecursiveFunctionsNone(f) == NoFunctions

\* line 174: the recursive call is passed the (overridden) functions
RecursiveFunctions(f) == f.functions

\* the stream being read belongs to a call that carried tool schemas
ToolsOffered ==
    calls # <<>> /\ "tools" \in DOMAIN calls[Len(calls)].kwargs

\* lines 165-177: finish_reason == "tool_calls"
ToolCall(f, seen, read) ==
    LET hfc == handle_function_call(messages, f.tool_call_id, f.name,
                                    f.arguments, show_output)
        o1 == out \o hfc.frags
        frames == [stack EXCEPT ![Len(stack)] = f]
        passed == RecursiveFunctions(f)
        look == Lookup(cache, req, hfc.messages, passed, RecursiveCaching, clock)
        functions == EffectiveFunctions(req.role, passed)
        gpc == get_provider_completion(completion, completion_kwargs,
                                       use_litellm)
    IN  /\ messages' = hfc.messages
        /\ toolExecs' = toolExecs + (IF hfc.executed THEN 1 ELSE 0)
        /\ contents' = IF hfc.ok /\ ~look.hit THEN Append(seen, "") ELSE seen
        /\ streams' = IF hfc.ok /\ ~look.hit THEN Append(read, NewStream)
                      ELSE read
        /\ IF ~hfc.ok
           THEN \* the exception leaves every generator: nothing is persisted
                /\ out' = o1
                /\ status' = "error"
                /\ error' = hfc.raised
                /\ stack' = <<>>
                /\ UNCHANGED << cache, responses, calls, accessed, provider >>
           ELSE IF look.hit
           THEN /\ out' = o1 \o look.frags
                /\ status' = "done"
                /\ stack' = <<>>
                /\ cache' = Unwind(look.cache, frames, o1 \o look.frags, clock)
                /\ accessed' = TouchedByUnwind(Touched(accessed, look.fp), frames)
                /\ UNCHANGED << responses, calls, error, provider >>
           ELSE /\ out' = o1
                /\ Resolve(gpc, functions)
                /\ calls' = Append(calls,
                                   ProviderCall(req, hfc.messages, functions,
                                                gpc))
                /\ UNCHANGED << cache, accessed >>
                /\ \E oc \in CallOutcomes :
                      IF oc = "stream"
                      THEN /\ status' = "streaming"
                           /\ error' = ""
                           /\ stack' = Append(frames,
                                              Frame(RecursiveCaching, look.fp,
                                                    Len(o1), functions,
                                                    Len(responses) + 1))
                           /\ responses' = Append(responses, "open")
                      ELSE /\ status' = "error"
                           /\ error' = oc
                           /\ stack' = <<>>
                           /\ responses' = Append(responses, "failed")

\* lines 143-179: one iteration of `for chunk in response`, in a run of at
\* most `chunks` chunks and `rounds` tool rounds for a request
ReadChunkWithin(ch, chunks, rounds) ==
    /\ status = "streaming"
    /\ nchunks < chunks
    /\ ch.finish_reason = "tool_calls" => Len(stack) <= rounds
    /\ nchunks' = nchunks + 1
    /\ IF ~ch.choices
       THEN /\ streams' = [streams EXCEPT ![Top.resp].chunks = @ + 1]
            /\ UNCHANGED << cache, status, messages, out, stack, responses,
                            calls, toolExecs, contents, accessed, error,
                            provider >>
       ELSE LET f == Accumulate(Top, ch.tool_calls)
                seen == [contents EXCEPT ![Top.resp] = @ \o ch.content]
                read == [streams EXCEPT
                            ![Top.resp] = [chunks |-> @.chunks + 1,
                                           finish |-> ch.finish_reason]]
            IN  IF ch.finish_reason = "tool_calls"
                THEN ToolCall(f, seen, read)
                ELSE /\ out' = Append(out, ch.content)
                     /\ stack' = [stack EXCEPT ![Len(stack)] = f]
                     /\ contents' = seen
                     /\ streams' = read
                     /\ UNCHANGED << cache, status, messages, responses,
                                     calls, toolExecs, accessed, error,
                                     provider >>
    /\ UNCHANGED << clock, show_output, req, peer, glue, script >>

\* the same within the bounds of the model
ReadChunk(ch) == ReadChunkWithin(ch, MaxChunks, MaxToolRounds)

\* the stream being read ends: every generator of the request returns
StreamEnd ==
    /\ status = "streaming"
    /\ responses' = [responses EXCEPT ![Top.resp] = "exhausted"]
    /\ cache' = Unwind(cache, stack, out, clock)
    /\ accessed' = TouchedByUnwind(accessed, stack)
    /\ status' = "done"
    /\ stack' = <<>>
    /\ UNCHANGED << clock, show_output, req, messages, out, calls, toolExecs,
                    nchunks, contents, error, provider, peer, glue, script,
                    streams >>

\* lines 180-181: the response the interrupted invocation closes
CloseOnInterrupt(resps, f) == [resps EXCEPT ![f.resp] = "closed"]

\* KeyboardInterrupt while the innermost invocation waits for a chunk: it
\* closes its response and its generator ends normally, and so do its callers'
Interrupt ==
    /\ status = "streaming"
    /\ responses' = CloseOnInterrupt(responses, Top)
    /\ cache' = Unwind(cache, stack, out, clock)
    /\ accessed' = TouchedByUnwind(accessed, stack)
    /\ status' = "cancelled"
    /\ stack' = <<>>
    /\ UNCHANGED << clock, show_output, req, messages, out, calls, toolExecs,
                    nchunks, contents, error, provider, peer, glue, script,
                    streams >>

\* an except clause that catches whatever the stream raises
CatchesAll(exc) == TRUE

\* line 180: the only exception the chunk loop catches
Catches(exc) == exc = "KeyboardInterrupt"

\* the stream being read raises exc while the innermost invocation waits for a
\* chunk: an exception the loop does not catch leaves every generator of the
\* request and handle, and no cache wrapper persists anything
StreamError(exc) ==
    /\ status = "streaming"
    /\ responses' = [responses EXCEPT ![Top.resp] = "failed"]
    /\ IF Catches(exc)
       THEN /\ cache' = Unwind(cache, stack, out, clock)
            /\ accessed' = TouchedByUnwind(accessed, stack)
            /\ status' = "cancelled"
            /\ error' = ""
       ELSE /\ status' = "error"
            /\ error' = exc
            /\ UNCHANGED << cache, accessed >>
    /\ stack' = <<>>
    /\ UNCHANGED << clock, show_output, req, messages, out, calls, toolExecs,
                    nchunks, contents, provider, peer, glue, script, streams >>

(***************************************************************************)
(* A second process (another invocation of the program) that runs handle   *)
(* at the same time on the same cache directory. Its requests carry no     *)
(* schemas and its streams only content, so of get_completion it runs the  *)
(* provider call and `yield delta.content` under the cache wrapper.        *)
(***************************************************************************)
IdlePeer ==
    [status |-> "idle", caching |-> FALSE, fp |-> <<>>, out |-> <<>>,
     live |-> FALSE]

\* the requests both processes make when they run side by side
ConcurrentRequests ==
    [prompt : {"p1"}, model : Models, temperature : Temperatures,
     top_p : TopPs, caching : BOOLEAN, functions : {NoFunctions},
     role : {DEFAULT}]

\* what the two providers' streams carry
ConcurrentChunks == { Chunk(TRUE, "a", <<>>, "none") }
PeerContents == {"b"}

\* lines 183-204 in the second process: a hit replays, a miss starts a stream
PeerHandle(rq, limit) ==
    /\ peer.status # "streaming"
    /\ clock < limit
    /\ LET msgs == make_messages(rq.role, rq.prompt)
           t == clock + 1
           look == Lookup(cache, rq, msgs, rq.functions,
                          HandleCaching(rq.caching), t)
       IN  /\ clock' = t
           /\ cache' = look.cache
           /\ peer' = [status |-> IF look.hit THEN "done" ELSE "streaming",
                       caching |-> HandleCaching(rq.caching), fp |-> look.fp,
                       out |-> look.frags, live |-> ~look.hit]
           /\ accessed' = IF look.hit THEN Touched(accessed, look.fp)
                          ELSE accessed
    /\ UNCHANGED << show_output, req, status, messages, out, stack, responses,
                    calls, toolExecs, nchunks, contents, error, provider,
                    glue, script, streams >>

\* lines 143-179 in the second process: one content chunk
PeerReadChunk(content) ==
    /\ peer.status = "streaming"
    /\ nchunks < MaxChunks
    /\ nchunks' = nchunks + 1
    /\ peer' = [peer EXCEPT !.out = Append(@, content)]
    /\ UNCHANGED << cache, clock, show_output, req, status, messages, out,
                    stack, responses, calls, toolExecs, contents, accessed,
                    error, provider, glue, script, streams >>

\* the second process's stream ends: its cache wrapper persists its fragments
PeerStreamEnd ==
    /\ peer.status = "streaming"
    /\ peer' = [peer EXCEPT !.status = "done"]
    /\ cache' = IF peer.caching
                THEN CacheWrite(cache, peer.fp, peer.out, clock)
                ELSE cache
    /\ accessed' = IF peer.caching THEN Touched(accessed, peer.fp)
                   ELSE accessed
    /\ UNCHANGED << clock, show_output, req, status, messages, out, stack,
                    responses, calls, toolExecs, nchunks, contents, error,
                    provider, glue, script, streams >>

(***************************************************************************)
(* replicate_to_host (sgpt/utils.py): install the program on a remote host *)
(* and copy the local configuration to it. A target is a sequence of       *)
(* characters.                                                             *)
(***************************************************************************)
TargetChars == { "u", "@", "-", " ", "\t" }

\* the targets --replicate may be given
Targets == UNION { [1..n -> TargetChars] : n \in 0..MaxTargetLen }

\* str.isspace() of one character, on the characters above
IsSpace(ch) == ch \in { " ", "\t" }

RECURSIVE LStrip(_)
LStrip(t) == IF t # <<>> /\ IsSpace(Head(t)) THEN LStrip(Tail(t)) ELSE t

RECURSIVE RStrip(_)
RStrip(t) ==
    IF t # <<>> /\ IsSpace(t[Len(t)]) THEN RStrip(SubSeq(t, 1, Len(t) - 1))
    ELSE t

\* line 101: target.strip()
Strip(t) == RStrip(LStrip(t))

\* a check for a leading dash that never finds one
StartsWithDashNever(t) == FALSE

\* line 104: normalized_target.startswith("-")
StartsWithDash(t) == t # <<>> /\ Head(t) = "-"

\* line 106: any(char.isspace() for char in normalized_target)
HasSpace(t) == \E i \in DOMAIN t : IsSpace(t[i])

\* str(SHELL_GPT_CONFIG_FOLDER)
SHELL_GPT_CONFIG_FOLDER == "/home/u/.config/shell_gpt"

\* lines 58-91: the two remote shell scripts, by name
REMOTE_BOOTSTRAP_COMMAND == "<REMOTE_BOOTSTRAP_COMMAND>"
REMOTE_VERIFY_COMMAND == "<REMOTE_VERIFY_COMMAND>"

\* lines 98-112: the usage error that refuses the call, "" when none does (a
\* backquote of the source is written ' here)
Refusal(t, windows, folder_exists) ==
    IF windows THEN "'--replicate' is only available on POSIX systems."
    ELSE IF Strip(t) = <<>>
    THEN "'--replicate' requires a target in the form user@host."
    ELSE IF StartsWithDash(Strip(t))
    THEN "'--replicate' target cannot start with '-'."
    ELSE IF HasSpace(Strip(t))
    THEN "'--replicate' target cannot contain spaces."
    ELSE IF ~folder_exists
    THEN "Local config folder does not exist: " \o SHELL_GPT_CONFIG_FOLDER
    ELSE ""

\* the steps in another order: the copy before the bootstrap
StepsCopyFirst == << "copy", "bootstrap", "verify" >>

\* lines 114-138: the three steps in the order of the code
Steps == << "bootstrap", "copy", "verify" >>

\* lines 115, 121-123, 134: what is echoed before a step
StepEcho(step, host) ==
    CASE step = "bootstrap" -> "Bootstrapping ShellGPT on " \o host \o "..."
      [] step = "copy" -> "Copying local config from " \o SHELL_GPT_CONFIG_FOLDER
                           \o " to remote host..."
      [] step = "verify" -> "Verifying remote installation..."

\* lines 117, 125-130, 136: the argument list of a step
StepArgv(step, host) ==
    CASE step = "bootstrap" ->
            << "ssh", host, "sh", "-lc", REMOTE_BOOTSTRAP_COMMAND >>
      [] step = "copy" ->
            << "scp", "-r", SHELL_GPT_CONFIG_FOLDER, host \o ":~/.config/" >>
      [] step = "verify" ->
            << "ssh", host, "sh", "-lc", REMOTE_VERIFY_COMMAND >>

\* a run whose exit status is not checked
CheckOff == FALSE

\* lines 118, 131, 137: check=True
Check == TRUE

\* what running a program may come to: exit status 0, another exit status, or
\* no such program
RunResults == { "zero", "nonzero", "missing" }

\* subprocess.run(argv, check=check): the exception it raises, "" when none
RunRaises(check, result) ==
    IF result = "missing" THEN "FileNotFoundError"
    ELSE IF result = "nonzero" /\ check THEN "CalledProcessError"
    ELSE ""

RECURSIVE Join(_, _)
\* sep.join(words)
Join(words, sep) ==
    IF words = <<>> THEN ""
    ELSE IF Len(words) = 1 THEN Head(words)
    ELSE Head(words) \o sep \o Join(Tail(words), sep)

\* lines 139-144: the usage error raised for an exception of a step
StepFailure(raised, argv) ==
    IF raised = "FileNotFoundError"
    THEN "Required command not found: " \o Head(argv)
    ELSE "Remote replication failed while running: " \o Join(argv, " ")

IdleReplication ==
    [pc |-> "idle", target |-> <<>>, windows |-> FALSE,
     folder_exists |-> FALSE, step |-> 0, runs |-> <<>>, echoed |-> <<>>,
     usage_error |-> ""]

\* lines 94-115: the checks before the first step, and its announcement
ReplicateToHost(t, windows, folder_exists) ==
    /\ replication.pc = "idle"
    /\ LET refusal == Refusal(t, windows, folder_exists)
           host == Concat(Strip(t))
           given == [replication EXCEPT !.target = t, !.windows = windows,
                                        !.folder_exists = folder_exists]
       IN  replication' =
              IF refusal # ""
              THEN [given EXCEPT !.pc = "failed", !.usage_error = refusal]
              ELSE [given EXCEPT !.pc = "running", !.step = 1,
                                 !.echoed = << StepEcho(Steps[1], host) >>]
    /\ UNCHANGED << engine, config, app >>

\* lines 116-146: one subprocess.run and what follows it up to the next one
RunStep(result) ==
    /\ replication.pc = "running"
    /\ LET host == Concat(Strip(replication.target))
           argv == StepArgv(Steps[replication.step], host)
           raised == RunRaises(Check, result)
           ran == Append(replication.runs,
                         [argv |-> argv, check |-> Check, result |-> result])
       IN  replication' =
              IF raised # ""
              THEN [replication EXCEPT !.pc = "failed", !.runs = ran,
                       !.usage_error = StepFailure(raised, argv)]
              ELSE IF replication.step < Len(Steps)
              THEN [replication EXCEPT !.runs = ran, !.step = @ + 1,
                       !.echoed = Append(@, StepEcho(Steps[replication.step + 1],
                                                     host))]
              ELSE [replication EXCEPT !.pc = "done", !.runs = ran,
                       !.echoed = Append(@, "Replication complete.")]
    /\ UNCHANGED << engine, config, app >>

(***************************************************************************)
(* Config.get (sgpt/config.py), as its tests state it. A value is a path   *)
(* given as the sequence of its components.                                *)
(***************************************************************************)
\* the keys whose values are paths, and one that is not
PathKeys ==
    { "ROLE_STORAGE_PATH", "OPENAI_FUNCTIONS_PATH", "CHAT_CACHE_PATH",
      "CACHE_PATH" }
ConfigKeys == PathKeys \cup { "DEFAULT_MODEL" }

\* the environment's HOME
HOME == "/home/u"

\* the values a key may have in the config file or in the environment
RawValues ==
    { << "~", "shell_gpt", "roles" >>, << "$HOME", "shell_gpt", "roles" >>,
      << "$HOME", "override", "roles" >>, << "/tmp", "ignored" >>,
      << "$HOME", "literal-model" >>, << "gpt-4o" >> }

\* a key the environment does not set
Unset == << >>

\* an expansion that knows ~ only
ExpandTildeOnly(value) ==
    IF Head(value) = "~" THEN << HOME >> \o Tail(value) ELSE value

\* a leading ~ or $HOME becomes the home directory
ExpandHome(value) ==
    IF Head(value) \in { "~", "$HOME" } THEN << HOME >> \o Tail(value)
    ELSE value

\* the environment's value of a key comes before the file's
ConfigValue(file_value, env_value) ==
    IF env_value # Unset THEN env_value ELSE file_value

\* Config.get(key)
ConfigGet(key, file_value, env_value) ==
    LET value == ConfigValue(file_value, env_value)
    IN  Join(IF key \in PathKeys THEN ExpandHome(value) ELSE value, "/")

NoConfig ==
    [pc |-> "idle", key |-> "", file_value |-> Unset, env_value |-> Unset,
     result |-> ""]

\* Config(config_path).get(key) on a file and an environment
GetConfig(key, file_value, env_value) ==
    /\ config.pc = "idle"
    /\ config' = [pc |-> "read", key |-> key, file_value |-> file_value,
                  env_value |-> env_value,
                  result |-> ConfigGet(key, file_value, env_value)]
    /\ UNCHANGED << engine, replication, app >>

(***************************************************************************)
(* The provider as a script: it ends the stream of each of the first       *)
(* `rounds` calls of a request with finish_reason=tool_calls (of every     *)
(* call when `always`), and the stream of the next call with stop.         *)
(***************************************************************************)
\* a provider that may answer anything
Unscripted == [scripted |-> FALSE, always |-> FALSE, rounds |-> 0]

\* the scripts: a tool call in each of the first k streams, or in every stream
Scripts ==
    { [scripted |-> TRUE, always |-> FALSE, rounds |-> k] :
        k \in 0..MaxScriptRounds }
    \cup { [scripted |-> TRUE, always |-> TRUE, rounds |-> 0] }

\* the requests made of a scripted provider: tools are offered
ScriptRequests ==
    [prompt : {"p1"}, model : Models, temperature : Temperatures,
     top_p : TopPs, caching : BOOLEAN, functions : {SomeFunctions},
     role : {DEFAULT}]

\* the chunks before the one that ends a stream: content
ScriptBody == { Chunk(TRUE, "a", <<>>, "none") }

\* the chunks that end a stream: a whole tool call, or stop
ScriptToolEnds ==
    { Chunk(TRUE, "", << DeltaHead, DeltaTail >>, "tool_calls"),
      Chunk(TRUE, "", << DeltaOther >>, "tool_calls") }
ScriptStop == Chunk(TRUE, "", <<>>, "stop")
ScriptChunks == ScriptBody \cup ScriptToolEnds \cup { ScriptStop }

\* the script answers the call whose stream is being read with a tool call,
\* which a provider does when the call offered it tools
AsksTool == ToolsOffered /\ (script.always \/ Len(calls) <= script.rounds)

\* the stream being read may send ch next: a finite body, then its end
Scripted(ch) ==
    /\ status = "streaming"
    /\ streams[Top.resp].finish # "stop"
    /\ IF ch \in ScriptBody THEN streams[Top.resp].chunks < MaxStreamChunks
       ELSE IF ch.finish_reason = "tool_calls" THEN AsksTool
       ELSE ~AsksTool

\* a scripted stream is exhausted once it has sent stop
ScriptedEnd == status = "streaming" /\ streams[Top.resp].finish = "stop"

\* more chunks than the scripted streams of a run can send
ScriptRunChunks == (MaxScriptRounds + 2) * (MaxStreamChunks + 1)

(***************************************************************************)
(* main (sgpt/app.py): the checks of its options, the completion, and the  *)
(* loop that asks what to do with a generated shell command.               *)
(***************************************************************************)
\* what main is called with: its flags (--chat and --repl are given or not),
\* whether stdin is piped (line 198), the interaction setting in effect
\* (lines 229-231) and cfg.get("DEFAULT_EXECUTE_SHELL_CMD") == "true"
AppOptions ==
    [shell : BOOLEAN, describe_shell : BOOLEAN, code : BOOLEAN,
     chat : BOOLEAN, repl : BOOLEAN, editor : BOOLEAN,
     stdin_passed : BOOLEAN, show_chat : BOOLEAN,
     shell_interaction : BOOLEAN, default_execute : BOOLEAN]

\* the checks without the one of --editor against stdin
UsageProblemNoEditorCheck(o) ==
    IF Cardinality({ m \in { "shell", "describe_shell", "code" } : o[m] }) > 1
    THEN "Only one of --shell, --describe-shell, and --code options can be used at a time."
    ELSE IF o.chat /\ o.repl
    THEN "--chat and --repl options cannot be used together."
    ELSE ""

\* lines 241-250: the usage error main raises for its options, "" when none
UsageProblem(o) ==
    IF Cardinality({ m \in { "shell", "describe_shell", "code" } : o[m] }) > 1
    THEN "Only one of --shell, --describe-shell, and --code options can be used at a time."
    ELSE IF o.chat /\ o.repl
    THEN "--chat and --repl options cannot be used together."
    ELSE IF o.editor /\ o.stdin_passed
    THEN "--editor option cannot be used with stdin input."
    ELSE ""

\* what the user leaves in the editor's file: nothing, or a prompt
EditorOutputs == { "", "list files" }

\* what handle comes to: it returns the full completion, or an error of the
\* provider leaves it (handler.py:133-143, 183-204)
HandleOutcomes == { "returned" } \cup TransportErrors

\* the command a completion under --shell consists of, and what the user may
\* make of it at the edit prompt
Commands == { "ls" }
Edits == { "ls -l", "pwd" }

\* what the user may type at the prompt: a choice in either case, or nothing
Typed == { "e", "E", "m", "d", "a", "y", "" }

\* lines 317-325: the option typer.prompt returns: the choice in lower case,
\* the default for an empty answer
Option(typed, default_execute) ==
    IF typed = "" THEN (IF default_execute THEN "e" ELSE "a")
    ELSE IF typed = "E" THEN "e"
    ELSE typed

\* the description taken for the command from then on
AfterDescribeAssigned(pending, description) == description

\* lines 334-341: what handle returns for a description is dropped
AfterDescribe(pending, description) == pending

NoApp ==
    [pc |-> "idle", opts |-> <<>>, usage_error |-> "", error |-> "",
     shown |-> FALSE, editor_opened |-> 0, handled |-> <<>>, pending |-> "",
     ran |-> <<>>, answers |-> <<>>]

\* lines 198-253: the chat shown on request, the checks of the options, and
\* the editor
Main(o, edited) ==
    /\ app.pc = "idle"
    /\ LET given == [app EXCEPT !.opts = o, !.shown = o.show_chat]
       IN  app' =
              IF UsageProblem(o) # ""
              THEN [given EXCEPT !.pc = "rejected",
                                 !.usage_error = UsageProblem(o)]
              ELSE IF o.editor /\ edited = ""
              THEN [given EXCEPT !.pc = "failed", !.editor_opened = 1,
                       !.error = "Couldn't get valid PROMPT from $EDITOR"]
              ELSE [given EXCEPT !.pc = "ready",
                                 !.editor_opened = IF o.editor THEN 1 ELSE 0]
    /\ UNCHANGED << engine, replication, config >>

\* lines 288-309: the handler main constructs for the completion
HandlerFor(o) == IF o.chat THEN "ChatHandler" ELSE "DefaultHandler"

\* lines 274-311: the handler is constructed and handles the prompt; with
\* --repl main stays in the REPL until the user leaves it (line 278)
Completion(outcome, command) ==
    /\ app.pc = "ready"
    /\ app' =
          IF app.opts.repl
          THEN [app EXCEPT !.pc = "repl", !.handled = << "ReplHandler" >>]
          ELSE IF outcome # "returned"
          THEN [app EXCEPT !.pc = "raised", !.error = outcome,
                           !.handled = << HandlerFor(app.opts) >>]
          ELSE [app EXCEPT !.handled = << HandlerFor(app.opts) >>,
                   !.pending = command,
                   !.pc = IF app.opts.shell /\ app.opts.shell_interaction
                          THEN "prompt" ELSE "exit"]
    /\ UNCHANGED << engine, replication, config >>

\* lines 316-343: one turn of the loop, from the prompt to the next prompt or
\* out of the loop
Answer(typed, edited, outcome) ==
    /\ app.pc = "prompt"
    /\ Len(app.answers) < MaxAnswers
    /\ LET option == Option(typed, app.opts.default_execute)
           asked == [app EXCEPT !.answers = Append(@, option)]
       IN  app' =
              IF option \in { "e", "y" }
              THEN [asked EXCEPT !.ran = Append(@, app.pending), !.pc = "exit"]
              ELSE IF option = "m"
              THEN [asked EXCEPT !.pending = edited]
              ELSE IF option = "d"
              THEN IF outcome = "returned"
                   THEN [asked EXCEPT
                            !.handled = Append(@, "DefaultHandler"),
                            !.pending = AfterDescribe(app.pending,
                                                      "lists the files")]
                   ELSE [asked EXCEPT
                            !.handled = Append(@, "DefaultHandler"),
                            !.pc = "raised", !.error = outcome]
              ELSE [asked EXCEPT !.pc = "exit"]
    /\ UNCHANGED << engine, replication, config >>

(***************************************************************************)
(* Specification                                                           *)
(***************************************************************************)
Init ==
    /\ cache = EmptyCache
    /\ clock = 0
    /\ show_output \in BOOLEAN
    /\ req = NoRequest
    /\ status = "idle"
    /\ messages = <<>>
    /\ out = <<>>
    /\ stack = <<>>
    /\ responses = <<>>
    /\ calls = <<>>
    /\ toolExecs = 0
    /\ nchunks = 0
    /\ contents = <<>>
    /\ accessed = <<>>
    /\ error = ""
    /\ use_litellm = FALSE
    /\ completion = NoCompletion
    /\ completion_kwargs = ProviderKwargs
    /\ resolved = 0
    /\ peer = IdlePeer
    /\ replication = IdleReplication
    /\ config = NoConfig
    /\ script = Unscripted
    /\ streams = <<>>
    /\ app = NoApp

\* one run of the process: every request of the domain, any stream
Next ==
    \/ \E rq \in Requests : Handle(rq, MaxRequests)
    \/ \E ch \in AllChunks : ReadChunk(ch)
    \/ StreamEnd
    \/ Interrupt
    \/ \E exc \in TransportErrors : StreamError(exc)

Spec == Init /\ [][Next]_vars

\* a longer run over the cache's request pool
NextCache ==
    \/ \E rq \in CacheRequests : Handle(rq, MaxCacheRequests)
    \/ \E ch \in CacheChunks :
          /\ ch \in ToolChunks => ToolsOffered
          /\ ReadChunk(ch)
    \/ StreamEnd
    \/ Interrupt
    \/ \E exc \in TransportErrors : StreamError(exc)

SpecCache == Init /\ [][NextCache]_vars

\* a process configured for either provider path
InitTools ==
    /\ cache = EmptyCache
    /\ clock = 0
    /\ show_output = FALSE
    /\ req = NoRequest
    /\ status = "idle"
    /\ messages = <<>>
    /\ out = <<>>
    /\ stack = <<>>
    /\ responses = <<>>
    /\ calls = <<>>
    /\ toolExecs = 0
    /\ nchunks = 0
    /\ contents = <<>>
    /\ accessed = <<>>
    /\ error = ""
    /\ use_litellm \in BOOLEAN
    /\ completion = NoCompletion
    /\ completion_kwargs = ProviderKwargs
    /\ resolved = 0
    /\ peer = IdlePeer
    /\ replication = IdleReplication
    /\ config = NoConfig
    /\ script = Unscripted
    /\ streams = <<>>
    /\ app = NoApp

\* a run over the gateway's request pool, whose provider asks for a tool only
\* when the call carried tool schemas
NextTools ==
    \/ \E rq \in ToolRequests : Handle(rq, MaxToolRequests)
    \/ \E ch \in ToolRunChunks :
          /\ (ch.tool_calls # <<>> \/ ch.finish_reason = "tool_calls")
                => ToolsOffered
          /\ ReadChunk(ch)
    \/ StreamEnd
    \/ Interrupt
    \/ \E exc \in TransportErrors : StreamError(exc)

SpecTools == InitTools /\ [][NextTools]_vars

\* two processes whose streams are left to finish: no interrupt, no failure of
\* a stream
NextConcurrent ==
    \/ \E rq \in ConcurrentRequests : Handle(rq, MaxConcurrentRequests)
    \/ \E ch \in ConcurrentChunks : ReadChunk(ch)
    \/ StreamEnd
    \/ \E rq \in ConcurrentRequests : PeerHandle(rq, MaxConcurrentRequests)
    \/ \E content \in PeerContents : PeerReadChunk(content)
    \/ PeerStreamEnd

SpecConcurrent == Init /\ [][NextConcurrent]_vars

\* a process whose provider follows a script
InitRounds ==
    /\ cache = EmptyCache
    /\ clock = 0
    /\ show_output \in BOOLEAN
    /\ req = NoRequest
    /\ status = "idle"
    /\ messages = <<>>
    /\ out = <<>>
    /\ stack = <<>>
    /\ responses = <<>>
    /\ calls = <<>>
    /\ toolExecs = 0
    /\ nchunks = 0
    /\ contents = <<>>
    /\ accessed = <<>>
    /\ error = ""
    /\ use_litellm = FALSE
    /\ completion = NoCompletion
    /\ completion_kwargs = ProviderKwargs
    /\ resolved = 0
    /\ peer = IdlePeer
    /\ replication = IdleReplication
    /\ config = NoConfig
    /\ script \in Scripts
    /\ streams = <<>>
    /\ app = NoApp

\* one request against a scripted provider, which the user may interrupt and
\* whose connection may fail; the recursion is followed one round further than
\* the longest finite script
NextRounds ==
    \/ \E rq \in ScriptRequests : Handle(rq, 1)
    \/ \E ch \in ScriptChunks :
          /\ Scripted(ch)
          /\ ReadChunkWithin(ch, ScriptRunChunks, MaxScriptRounds + 1)
    \/ ScriptedEnd /\ StreamEnd
    \/ Interrupt
    \/ \E exc \in TransportErrors : StreamError(exc)

SpecRounds == InitRounds /\ [][NextRounds]_vars

\* the same left to run: no interrupt, every call answered with a stream that
\* arrives whole, and every chunk that is due is read in the end
NextRoundsFair ==
    \/ \E rq \in ScriptRequests : Handle(rq, 1) /\ status' # "error"
    \/ \E ch \in ScriptChunks :
          /\ Scripted(ch)
          /\ ReadChunkWithin(ch, ScriptRunChunks, MaxScriptRounds + 1)
          /\ status' # "error"
    \/ ScriptedEnd /\ StreamEnd

SpecRoundsFair ==
    InitRounds /\ [][NextRoundsFair]_vars /\ WF_vars(NextRoundsFair)

\* one call of main, with any options and any user
NextApp ==
    \/ \E o \in AppOptions, edited \in EditorOutputs : Main(o, edited)
    \/ \E outcome \in HandleOutcomes, command \in Commands :
          Completion(outcome, command)
    \/ \E typed \in Typed, edited \in Edits, outcome \in HandleOutcomes :
          Answer(typed, edited, outcome)

SpecApp == Init /\ [][NextApp]_vars

\* one call of replicate_to_host, on any target and any host
NextReplicate ==
    \/ \E t \in Targets, windows \in BOOLEAN, folder_exists \in BOOLEAN :
          ReplicateToHost(t, windows, folder_exists)
    \/ \E result \in RunResults : RunStep(result)

SpecReplicate == Init /\ [][NextReplicate]_vars

\* one call of Config.get, on any key, file value and environment
NextConfig ==
    \E key \in ConfigKeys, file_value \in RawValues,
       env_value \in RawValues \cup {Unset} :
        GetConfig(key, file_value, env_value)

SpecConfig == Init /\ [][NextConfig]_vars

(***************************************************************************)
(* Properties                                                              *)
(***************************************************************************)
\* the fingerprint of the outermost invocation of a request
ReqFp(rq) ==
    Fingerprint(rq.model, rq.temperature, rq.top_p,
                make_messages(rq.role, rq.prompt), rq.functions)

\* a step that performs again the request just fully drained after a miss
Repeats ==
    /\ status = "done"
    /\ req.caching
    /\ calls # <<>>
    /\ clock' = clock + 1
    /\ req' = req

\* C1 as stated: performing a request twice with caching enabled, the first
\* fully drained, issues exactly one live provider call in total, the second
\* replaying the first's fragments without executing a function
C1_OneCallInTotal ==
    [][Repeats =>
        /\ Len(calls) + Len(calls') = 1
        /\ status' = "done"
        /\ out' = out
        /\ toolExecs' = 0]_vars

\* C1 amended: the second performance issues no provider call and executes no
\* function, and replays the fragments of the first verbatim and in order; the
\* provider calls in total are those of the first: one and one per tool round
C1_SecondIsReplay ==
    [][Repeats =>
        /\ calls' = <<>>
        /\ Len(calls) = 1 + toolExecs
        /\ status' = "done"
        /\ out' = out
        /\ Concat(out') = Concat(out)
        /\ toolExecs' = 0
        /\ messages' = make_messages(req.role, req.prompt)]_vars

\* a replay of a request that went through a tool round
C1_Witness ==
    /\ status = "done"
    /\ req.caching
    /\ calls = <<>>
    /\ toolExecs = 0
    /\ Len(out) >= 3
    /\ \E i \in DOMAIN out : out[i] = "\n"

\* C2: after a stream is cancelled having yielded some fragments, no cache
\* entry exists for the request's fingerprint
C2_NoPartialEntry ==
    (status = "cancelled" /\ req.caching /\ out # <<>>)
        => ReqFp(req) \notin DOMAIN cache

\* C3: an interrupt closes every provider stream the request has open, and
\* the request ends without an error
C3_InterruptClosesAll ==
    status = "cancelled" =>
        /\ \A i \in DOMAIN responses : responses[i] # "open"
        /\ stack = <<>>

\* the tool-role messages of the request
ToolMessages == { i \in DOMAIN messages : messages[i].role = "tool" }

\* a request that went through exactly one tool round and then ended
OneToolRound == status = "done" /\ Len(calls) = 2

\* C4 as stated: with one tool round the function is executed once, one
\* tool-role message is appended and the text returned is the concatenation of
\* the content fragments of both stream segments
C4_TextIsContentOnly ==
    OneToolRound =>
        /\ toolExecs = 1
        /\ Cardinality(ToolMessages) = 1
        /\ Concat(out) = contents[1] \o contents[2]

\* what handle_function_call prints for f(q=1)
ExpectedTrace ==
    "\n> @FunctionCall 'f(q=\"1\")' \n\n"
    \o (IF show_output THEN "'''text\nresult of f\n'''\n" ELSE "")

\* C4 amended: with one tool round the function is executed once, one tool-role
\* message is appended and the text returned is the content of the first
\* segment, then the trace of the function call, then the content of the second
C4_TextIsContentAndTrace ==
    OneToolRound =>
        /\ toolExecs = 1
        /\ Cardinality(ToolMessages) = 1
        /\ Concat(out) = contents[1] \o ExpectedTrace \o contents[2]

\* one tool round with content in both segments
C4_Witness ==
    /\ OneToolRound
    /\ contents[1] # ""
    /\ contents[2] # ""

ToolKeys == {"tools", "tool_choice", "parallel_tool_calls"}

\* C5: under the shell, code or describe-shell role no provider call of the
\* request carries tools, tool_choice or parallel_tool_calls
C5_ReservedRoleSendsNoTools ==
    req.role \in {SHELL, CODE, DESCRIBE_SHELL} =>
        \A i \in DOMAIN calls : DOMAIN calls[i].kwargs \cap ToolKeys = {}

\* a describe-shell request given schemas went through a tool round: both
\* its call and its recursive call were made
C5_Witness ==
    /\ req.role = DESCRIBE_SHELL
    /\ Truthy(req.functions)
    /\ status = "done"
    /\ toolExecs = 1
    /\ Len(calls) = 2

\* C6: the cache never holds more than CACHE_LENGTH entries
C6_SizeBound == Cardinality(DOMAIN cache) <= CACHE_LENGTH

\* more fingerprints were cached than fit, and the cache is full
C6_Witness ==
    /\ Len(accessed) > CACHE_LENGTH
    /\ Cardinality(DOMAIN cache) = CACHE_LENGTH

\* the positions in accessed of the entries an LRU store of CACHE_LENGTH keeps
Recent ==
    { i \in DOMAIN accessed : i > Len(accessed) - CACHE_LENGTH }

\* C7: the cache holds exactly the CACHE_LENGTH most recently accessed
\* fingerprints (all of them while fewer were accessed), a hit counting as an
\* access, and the entries' timestamps are in the order of those accesses
C7_KeepsMostRecent ==
    /\ DOMAIN cache = { accessed[i] : i \in Recent }
    /\ \A i, j \in Recent :
          i < j => cache[accessed[i]].atime < cache[accessed[j]].atime

\* an insertion into a full cache has evicted the least recently accessed entry
C7_Witness ==
    /\ status = "done"
    /\ req.caching
    /\ calls # <<>>
    /\ Len(accessed) = CACHE_LENGTH + 1
    /\ accessed[Len(accessed)] = ReqFp(req)
    /\ accessed[1] \notin DOMAIN cache
    /\ Cardinality(DOMAIN cache) = CACHE_LENGTH

\* C8: a request with caching disabled makes a live provider call whatever the
\* cache holds, and no step of it changes the cache
C8_DisabledBypasses ==
    [][~req'.caching =>
        /\ cache' = cache
        /\ clock' = clock + 1 => (status' # "done" /\ Len(calls') = 1)]_vars

\* a request with caching disabled ran live although its fingerprint is cached
C8_Witness ==
    /\ ~req.caching
    /\ status = "done"
    /\ Len(calls) >= 1
    /\ ReqFp(req) \in DOMAIN cache

\* C9: the only entry a request creates or rewrites is the one of its outermost
\* invocation, when it ends, and it holds everything the request yielded
C9_OnlyOutermostCached ==
    [][\A fp \in DOMAIN cache' :
          (fp \notin DOMAIN cache \/ cache'[fp].frags # cache[fp].frags) =>
              /\ fp = ReqFp(req')
              /\ req'.caching
              /\ status' \in {"done", "cancelled"}
              /\ cache'[fp].frags = out']_vars

\* a request with one tool round has ended and its output is the one entry
C9_Witness ==
    /\ status = "done"
    /\ req.caching
    /\ toolExecs = 1
    /\ Len(calls) = 2
    /\ contents[2] # ""
    /\ DOMAIN cache = {ReqFp(req)}
    /\ cache[ReqFp(req)].frags = out

\* the raw argument texts that are JSON objects
WellFormedArgs == { "{}", "{\"q\": 1}" }

\* the request recorded a tool call whose accumulated arguments do not parse
MalformedCall ==
    \E i \in DOMAIN messages :
        /\ messages[i].role = "assistant"
        /\ messages[i].tool_calls[1].function.arguments \notin WellFormedArgs

\* C11: when the arguments accumulated for a tool call do not parse, the parse
\* error leaves handle; the function is not invoked, no tool-role message is
\* appended, no further provider call is made and no cache entry is written
C11_MalformedArgsFatal ==
    /\ [](MalformedCall =>
            /\ status = "error"
            /\ error = JSONDecodeError
            /\ stack = <<>>
            /\ messages[Len(messages)].role = "assistant"
            /\ req.caching => ReqFp(req) \notin DOMAIN cache)
    /\ [][(MalformedCall' /\ ~MalformedCall) =>
            /\ toolExecs' = toolExecs
            /\ ToolMessages' = ToolMessages
            /\ calls' = calls
            /\ responses' = responses
            /\ cache' = cache]_vars

\* a cached request that had yielded content received a tool call whose
\* arguments stop short
C11_Witness ==
    /\ status = "error"
    /\ error = JSONDecodeError
    /\ req.caching
    /\ contents[1] # ""
    /\ messages[Len(messages)].role = "assistant"
    /\ messages[Len(messages)].tool_calls[1].function.arguments = ArgHead
    /\ messages[Len(messages)].tool_calls[1].function.name = "f"

\* the step in which a provider call or its stream raises a transport error
TransportFailure ==
    /\ responses' # <<>>
    /\ responses'[Len(responses')] = "failed"
    /\ clock' # clock \/ responses' # responses

\* C12: an error raised by the provider call or by its stream mid-way leaves
\* handle as it is; no provider call follows the one that failed, and no cache
\* entry is written for the request
C12_TransportErrorsPropagate ==
    /\ []((status = "error" /\ error \in TransportErrors) =>
            /\ stack = <<>>
            /\ req.caching => ReqFp(req) \notin DOMAIN cache)
    /\ [][TransportFailure =>
            /\ status' = "error"
            /\ error' \in TransportErrors
            /\ Len(calls') = Len(responses')
            /\ clock' = clock => SubSeq(calls', 1, Len(calls)) = calls
            /\ cache' = cache]_vars

\* the stream of the recursive call failed mid-way, after content, under caching
C12_Witness ==
    /\ status = "error"
    /\ error = APIConnectionError
    /\ req.caching
    /\ Len(calls) = 2
    /\ responses = << "open", "failed" >>
    /\ contents[2] # ""

\* the keyword arguments of a provider call that are not the tool keys
BaseKwargs(kw) == [k \in DOMAIN kw \ ToolKeys |-> kw[k]]

\* what the first resolution stores: nothing for the OpenAI client, whose
\* constructor took the configuration, else the timeout and the base URL
FirstKwargs ==
    IF use_litellm THEN [timeout |-> 60, base_url |-> "<None>"]
    ELSE [k \in {} |-> ""]

\* C13: the provider is resolved from the configuration exactly once, by the
\* first call of get_provider_completion; every later call returns the same
\* callable and keyword arguments equal to the first call's, whatever the
\* requests in between added to their dictionaries
C13_ResolvedOnce ==
    /\ [](/\ resolved <= 1
          /\ (resolved = 1) = (completion # NoCompletion)
          /\ resolved = 1 =>
                /\ completion_kwargs = FirstKwargs
                /\ completion = IF use_litellm THEN "litellm.completion"
                                ELSE "client.chat.completions.create"
          /\ \A i \in DOMAIN calls :
                /\ resolved = 1
                /\ calls[i].func = completion
                /\ BaseKwargs(calls[i].kwargs) = FirstKwargs)
    /\ [][completion # NoCompletion =>
            /\ completion' = completion
            /\ completion_kwargs' = completion_kwargs
            /\ resolved' = resolved]_vars

\* the second request of a process on the LiteLLM path went through a tool
\* round with tools sent: its calls are at least the third and the fourth
C13_Witness ==
    /\ use_litellm
    /\ clock = 2
    /\ Len(calls) = 2
    /\ "tools" \in DOMAIN calls[1].kwargs
    /\ "tools" \in DOMAIN calls[2].kwargs
    /\ resolved = 1

\* the schemas in effect for the current request: none under a reserved role
EffectiveSchemas ==
    IF req.role \in {SHELL, CODE, DESCRIBE_SHELL} \/ ~req.functions.given
    THEN <<>>
    ELSE req.functions.schemas

\* C14: a provider call carries tools exactly when the effective schema list is
\* non-empty, and then tool_choice is "auto" and parallel_tool_calls is false;
\* with an empty or absent list it carries none of the three keys, whatever
\* the earlier requests of the process sent
C14_ToolRequestShape ==
    \A i \in DOMAIN calls :
        LET kw == calls[i].kwargs
        IN  IF EffectiveSchemas # <<>>
            THEN /\ ToolKeys \subseteq DOMAIN kw
                 /\ kw.tools = EffectiveSchemas
                 /\ kw.tool_choice = "auto"
                 /\ kw.parallel_tool_calls = FALSE
            ELSE DOMAIN kw \cap ToolKeys = {}

\* a request with an empty schema list made its call after a request of the
\* same process that sent tools (and was cached)
C14_Witness ==
    /\ clock = 2
    /\ req.functions = EmptyFunctions
    /\ req.role = DEFAULT
    /\ Len(calls) = 1
    /\ status = "done"
    /\ \E fp \in DOMAIN cache : fp[5] /\ fp[4][1].content = "You are ShellGPT"

\* the steps in which a process's stream ends
MainFinishes == status = "streaming" /\ status' = "done"
PeerFinishes == peer.status = "streaming" /\ peer'.status = "done"

\* both processes missed on the same fingerprint with caching enabled, ran
\* side by side and have finished
BothFinished ==
    /\ status = "done" /\ calls # <<>> /\ req.caching
    /\ peer.status = "done" /\ peer.live /\ peer.caching
    /\ peer.fp = ReqFp(req)

\* C15: two requests with one fingerprint that both miss and run side by side
\* each yield their own live fragments; the entry of the fingerprint is written
\* whole when a process finishes and by nothing else, so once both have
\* finished it is the complete fragment sequence of the later writer, and a
\* reader in between finds no entry or a complete one
C15_LastWriterWins ==
    /\ [][(MainFinishes /\ req.caching) =>
            /\ out' = out
            /\ ReqFp(req) \in DOMAIN cache'
            /\ cache'[ReqFp(req)].frags = out']_vars
    /\ [][(PeerFinishes /\ peer.caching) =>
            /\ peer'.out = peer.out
            /\ peer.fp \in DOMAIN cache'
            /\ cache'[peer.fp].frags = peer'.out]_vars
    /\ [][~(MainFinishes \/ PeerFinishes) =>
            /\ DOMAIN cache' = DOMAIN cache
            /\ \A fp \in DOMAIN cache : cache'[fp].frags = cache[fp].frags]_vars
    /\ [](BothFinished =>
            /\ \A i \in DOMAIN out : out[i] = "a"
            /\ \A i \in DOMAIN peer.out : peer.out[i] = "b"
            /\ ReqFp(req) \in DOMAIN cache
            /\ cache[ReqFp(req)].frags \in {out, peer.out})

\* both missed and finished with different outputs, and the entry is the output
\* of the process that finished last, here the one that started first
C15_Witness ==
    /\ BothFinished
    /\ out = << "a" >>
    /\ peer.out = << "b", "b" >>
    /\ cache[ReqFp(req)].frags = out
    /\ clock = 2

\* the host the call is about: the target, trimmed
Host == Concat(Strip(replication.target))

\* the three commands of a replication, in order
ExpectedRuns ==
    << << "ssh", Host, "sh", "-lc", "<REMOTE_BOOTSTRAP_COMMAND>" >>,
       << "scp", "-r", "/home/u/.config/shell_gpt", Host \o ":~/.config/" >>,
       << "ssh", Host, "sh", "-lc", "<REMOTE_VERIFY_COMMAND>" >> >>

Complete == "Replication complete."

\* C16: replicate_to_host runs the ssh bootstrap, then the recursive scp of the
\* config folder to target:~/.config/, then the ssh verify, each with check
\* enabled and each only after the one before succeeded; it runs exactly these
\* three when it completes, and reports "Replication complete." only then
C16_StepOrder ==
    LET runs == replication.runs
        echoed == replication.echoed
    IN  /\ Len(runs) <= 3
        /\ \A i \in DOMAIN runs :
              /\ runs[i].argv = ExpectedRuns[i]
              /\ runs[i].check
              /\ i < Len(runs) => runs[i].result = "zero"
        /\ (replication.pc = "done") = (\E i \in DOMAIN echoed : echoed[i] = Complete)
        /\ replication.pc = "done" =>
              /\ Len(runs) = 3
              /\ \A i \in DOMAIN runs : runs[i].result = "zero"
              /\ echoed[Len(echoed)] = Complete
              /\ \A i \in 1..(Len(echoed) - 1) : echoed[i] # Complete

\* a replication to the host u@, given with a blank before it, ran to its end
C16_Witness ==
    /\ replication.pc = "done"
    /\ replication.target = << " ", "u", "@" >>
    /\ replication.folder_exists
    /\ Len(replication.runs) = 3

\* the target or the local folder does not meet the preconditions
BadTarget ==
    LET n == Strip(replication.target)
    IN  \/ n = <<>>
        \/ n[1] = "-"
        \/ \E i \in DOMAIN n : n[i] \in { " ", "\t" }
        \/ ~replication.folder_exists

\* C17: when the trimmed target is empty, starts with '-' or contains a
\* whitespace character, or the local config folder does not exist,
\* replicate_to_host fails with a usage error and runs no external command
C17_Preconditions ==
    (replication.pc # "idle" /\ BadTarget) =>
        /\ replication.pc = "failed"
        /\ replication.usage_error # ""
        /\ replication.runs = <<>>
        /\ replication.echoed = <<>>

\* a target with a tab inside was refused although the folder exists
C17_Witness ==
    /\ replication.pc = "failed"
    /\ replication.target = << "u", "\t", "u" >>
    /\ replication.folder_exists
    /\ ~replication.windows
    /\ replication.usage_error = "'--replicate' target cannot contain spaces."
    /\ replication.runs = <<>>

\* C18: when one of the three steps fails (an exit status other than 0, or the
\* program is missing) no later step is run, the usage error names the failed
\* command or the missing program, and "Replication complete." is never
\* reported
C18_FailureStopsChain ==
    /\ [](\A i \in DOMAIN replication.runs :
            replication.runs[i].result # "zero" =>
                /\ i = Len(replication.runs)
                /\ replication.pc = "failed"
                /\ replication.usage_error =
                      IF replication.runs[i].result = "missing"
                      THEN "Required command not found: "
                           \o replication.runs[i].argv[1]
                      ELSE "Remote replication failed while running: "
                           \o Join(replication.runs[i].argv, " ")
                /\ \A j \in DOMAIN replication.echoed :
                      replication.echoed[j] # Complete)
    /\ [][replication.pc = "failed" => replication' = replication]_vars

\* the copy failed with an exit status after the bootstrap had succeeded
C18_Witness ==
    /\ replication.pc = "failed"
    /\ Len(replication.runs) = 2
    /\ replication.runs[2].result = "nonzero"
    /\ replication.usage_error =
          "Remote replication failed while running: scp -r /home/u/.config/shell_gpt u@u:~/.config/"

\* the value Config.get starts from, written out
GivenValue ==
    IF config.env_value # << >> THEN config.env_value ELSE config.file_value

\* C19: for each of the four path keys Config.get returns the value with a
\* leading ~ or $HOME replaced by the home directory, whether it comes from the
\* config file or from the environment, whose value comes first; for
\* DEFAULT_MODEL the value is returned as it is written
C19_PathExpansion ==
    config.pc = "read" =>
        IF config.key \in { "ROLE_STORAGE_PATH", "OPENAI_FUNCTIONS_PATH",
                            "CHAT_CACHE_PATH", "CACHE_PATH" }
           /\ GivenValue[1] \in { "~", "$HOME" }
        THEN config.result = "/home/u/" \o Join(Tail(GivenValue), "/")
        ELSE config.result = Join(GivenValue, "/")

\* CACHE_PATH read from an environment value that starts with $HOME, over a
\* file value that does not
C19_Witness ==
    /\ config.pc = "read"
    /\ config.key = "CACHE_PATH"
    /\ config.file_value = << "/tmp", "ignored" >>
    /\ config.env_value = << "$HOME", "override", "roles" >>
    /\ config.result = "/home/u/override/roles"

\* C20: the arguments accumulated in a stream segment are the concatenation,
\* in arrival order, of the fragments of the tool call whose id was received
\* last, and of no other tool call of the segment nor of an earlier segment
C20_PerIdAccumulation ==
    \A i \in DOMAIN stack : stack[i].arguments = stack[i].own

\* the message list the request started from
InitialMessages == make_messages(req.role, req.prompt)

\* the tool calls the scripted provider asks for, as a message records them
RecordedCalls ==
    { [id |-> "call_1", type |-> "function",
       function |-> [name |-> "f", arguments |-> "{\"q\": 1}"]],
      [id |-> "call_2", type |-> "function",
       function |-> [name |-> "g", arguments |-> "{}"]] }

\* the two messages of tool round i: the assistant message that records the
\* call, with null content, and the tool message that answers it
RoundPair(i) ==
    LET a == messages[Len(InitialMessages) + 2 * i - 1]
        t == messages[Len(InitialMessages) + 2 * i]
    IN  /\ a.role = "assistant"
        /\ a.content = "<None>"
        /\ Len(a.tool_calls) = 1
        /\ a.tool_calls[1] \in RecordedCalls
        /\ t.role = "tool"
        /\ t.tool_call_id = a.tool_calls[1].id
        /\ t.content = "result of " \o a.tool_calls[1].function.name

\* C21: every executed tool call extends the message list by an assistant
\* message recording the call and then a tool message with the same id and the
\* function's result, and leaves the earlier messages as they are; after k
\* rounds the list is the initial one followed by k such pairs, and the
\* provider call of round i was sent the list with i pairs
C21_MessagePairs ==
    /\ [](status # "idle" =>
            /\ Len(messages) = Len(InitialMessages) + 2 * toolExecs
            /\ SubSeq(messages, 1, Len(InitialMessages)) = InitialMessages
            /\ \A i \in 1..toolExecs : RoundPair(i)
            /\ \A j \in DOMAIN calls :
                  calls[j].messages =
                     SubSeq(messages, 1, Len(InitialMessages) + 2 * (j - 1)))
    /\ [][clock' = clock =>
            /\ toolExecs' \in { toolExecs, toolExecs + 1 }
            /\ Len(messages') = Len(messages) + 2 * (toolExecs' - toolExecs)
            /\ SubSeq(messages', 1, Len(messages)) = messages]_vars

\* two rounds are over, f then g, and the request has ended after three calls
C21_Witness ==
    /\ status = "done"
    /\ toolExecs = 2
    /\ Len(calls) = 3
    /\ Len(messages) = 6
    /\ messages[3].tool_calls[1].function.name = "f"
    /\ messages[5].tool_calls[1].function.name = "g"
    /\ messages[6].tool_call_id = "call_2"

\* what handle_function_call yields in tool round i
RoundTrace(i) ==
    LET fn == messages[Len(InitialMessages) + 2 * i - 1].tool_calls[1].function
    IN  "\n> @FunctionCall '"
        \o (IF fn.name = "f" THEN "f(q=\"1\")" ELSE fn.name \o "()")
        \o "' \n\n"
        \o (IF show_output THEN "'''text\nresult of " \o fn.name \o "\n'''\n"
            ELSE "")

RECURSIVE Transcript(_)
\* the text of the request from its segment j on: the segment's content, the
\* trace of the tool round that ended it and what the sub-call yielded
Transcript(j) ==
    IF j > Len(contents) THEN ""
    ELSE contents[j]
         \o (IF j <= toolExecs THEN RoundTrace(j) \o Transcript(j + 1) ELSE "")

\* C22: of the streams of a request only the latest is read; a stream that has
\* sent finish_reason=tool_calls is read no further and yields nothing more;
\* the function of a round has run, and its result is in the list, when the
\* recursive call is issued; and the consumer receives the content of a
\* segment, then the trace of its tool round, then what the sub-call yields
C22_SequentialRecursion ==
    /\ [](calls # <<>> =>
            /\ Len(streams) = Len(calls)
            /\ \A i \in 1..(Len(streams) - 1) : streams[i].finish = "tool_calls"
            /\ Len(calls) = toolExecs + 1
            /\ \A j \in 2..Len(calls) :
                  LET sent == calls[j].messages
                  IN  /\ sent[Len(sent)].role = "tool"
                      /\ sent[Len(sent)].content \in { "result of f", "result of g" }
            /\ Concat(out) = Transcript(1))
    /\ [][clock' = clock =>
            \A i \in DOMAIN streams :
                (i < Len(streams) \/ streams[i].finish = "tool_calls") =>
                    /\ streams'[i] = streams[i]
                    /\ contents'[i] = contents[i]]_vars

\* a request went through two rounds with content before, between and after
\* them
C22_Witness ==
    /\ status = "done"
    /\ toolExecs = 2
    /\ contents = << "a", "a", "a" >>
    /\ streams[1] = [chunks |-> 2, finish |-> "tool_calls"]
    /\ streams[3].finish = "stop"
    /\ Len(out) >= 7

\* the rounds up to which the model follows a provider that never stops
Horizon == MaxScriptRounds + 1

\* C23: nothing but the provider ends the tool-call loop. Against a provider
\* that answers every call with finish_reason=tool_calls the request is never
\* done and goes on executing functions and calling the provider, as far as
\* the model follows it; against one that does so exactly k times and then
\* stops, with finite streams, the request is done in the end, after exactly k
\* function executions and k + 1 provider calls
C23_ProviderEndsLoop ==
    /\ [](script.always =>
            /\ status # "done"
            /\ calls # <<>> => Len(calls) = toolExecs + 1)
    /\ <>[](script.always =>
              (status = "streaming" /\ toolExecs = Horizon
               /\ Len(calls) = Horizon + 1))
    /\ [](status = "done" =>
            /\ toolExecs = script.rounds
            /\ Len(calls) = script.rounds + 1)
    /\ <>[](~script.always => status = "done")

\* a provider scripted for two tool rounds was called three times, and the
\* request is done
C23_Witness ==
    /\ script = [scripted |-> TRUE, always |-> FALSE, rounds |-> 2]
    /\ status = "done"
    /\ toolExecs = 2
    /\ Len(calls) = 3
    /\ \A i \in DOMAIN calls : "tools" \in DOMAIN calls[i].kwargs
    /\ streams[3].finish = "stop"

\* the loop was entered: --shell was given and interaction is enabled
InShellLoop == app.opts.shell /\ app.opts.shell_interaction

\* a step in which the user answers the prompt and the answer is taken for
\* the given option
Answers(option) ==
    /\ app.pc = "prompt"
    /\ Len(app'.answers) = Len(app.answers) + 1
    /\ app'.answers[Len(app'.answers)] = option

\* what holds of the loop whatever the describe request comes to: the command
\* is run at most once, only in the loop and only on e or y, which run the
\* pending command and end the loop; a ends it and runs nothing; m runs
\* nothing, takes the edited text for the pending command and returns to the
\* prompt; d runs nothing and leaves the pending command as it is
LoopRules ==
    /\ [](/\ Len(app.ran) <= 1
          /\ app.answers # <<>> => InShellLoop
          /\ app.ran # <<>> =>
                /\ app.pc = "exit"
                /\ app.answers[Len(app.answers)] \in { "e", "y" }
                /\ \A i \in 1..(Len(app.answers) - 1) :
                      app.answers[i] \in { "m", "d" })
    /\ [][\A option \in { "e", "y" } :
            Answers(option) =>
                (app'.ran = << app.pending >> /\ app'.pc = "exit")]_vars
    /\ [][Answers("a") => (app'.ran = <<>> /\ app'.pc = "exit")]_vars
    /\ [][Answers("m") =>
            /\ app'.ran = <<>>
            /\ app'.pc = "prompt"
            /\ app'.pending \in { "ls -l", "pwd" }]_vars
    /\ [][Answers("d") =>
            (app'.ran = <<>> /\ app'.pending = app.pending)]_vars
    /\ [][app.pc \in { "exit", "raised" } => app' = app]_vars

Conflicting ==
    \/ app.opts.shell /\ app.opts.describe_shell
    \/ app.opts.shell /\ app.opts.code
    \/ app.opts.describe_shell /\ app.opts.code
    \/ app.opts.chat /\ app.opts.repl
    \/ app.opts.editor /\ app.opts.stdin_passed

\* C25: when more than one of --shell, --describe-shell and --code is given,
\* or --chat with --repl, or --editor with stdin input, main raises a usage
\* error: no handler is constructed and none handles a prompt, the editor is
\* not opened and no command is run, then or later
C25_ConflictsRejected ==
    /\ []((app.pc # "idle" /\ Conflicting) =>
            /\ app.pc = "rejected"
            /\ app.usage_error # ""
            /\ app.handled = <<>>
            /\ app.editor_opened = 0
            /\ app.ran = <<>>
            /\ app.answers = <<>>)
    /\ [][app.pc = "rejected" => app' = app]_vars

\* --editor with piped stdin, and no other conflict, was rejected
C25_Witness ==
    /\ app.pc = "rejected"
    /\ app.opts.editor /\ app.opts.stdin_passed
    /\ app.opts.shell /\ ~app.opts.describe_shell /\ ~app.opts.code
    /\ ~app.opts.repl
    /\ app.usage_error = "--editor option cannot be used with stdin input."
    /\ app.editor_opened = 0

====
